---- MODULE Spec2Model ----
(***************************************************************************)
(* Model of the secured "Hello, World!" Express application:               *)
(*   middleware/rateLimiter.js  rate-limit policies and their parsing      *)
(*   app.js                     the middleware stack, routes and handlers  *)
(*   config/security.js         the CORS whitelist and options             *)
(*   config/https.js            certificates and the TLS listener          *)
(*   server.js, unnamed/part_000  the server process: listeners, shutdown, *)
(*                              process-wide faults and exit codes         *)
(*   unnamed/part_001           middleware/validation.js: validateRequest  *)
(* A JavaScript string is a sequence of one-character strings; the value   *)
(* `undefined` of an unset environment variable is the token below.        *)
(***************************************************************************)
EXTENDS Integers, Sequences, FiniteSets, Bags, TLC

\* ------------------------------------------------------------------------
\* Bounds of the model
\* ------------------------------------------------------------------------
MaxLen == 3

MaxInFlight == 2

MaxHits == 3

MaxNow == 3

MaxConnections == 1

MaxSignals == 2

\* the clock of the server process, in milliseconds, moves in steps of at
\* most
TimeStep == 5000

MaxClock == 5000

\* ------------------------------------------------------------------------
\* JavaScript values
\* ------------------------------------------------------------------------
undefined == <<"<undefined>">>

null == [null |-> TRUE]

\* an environment variable that is not set, where its values are whole words
unset == "<unset>"

Digits == {"0", "1", "2"}

WhiteSpace == {" "}

Chars == Digits \cup WhiteSpace \cup {"-", "+", "a", "."}

DigitValue(c) == CASE c = "0" -> 0 [] c = "1" -> 1 [] c = "2" -> 2

RECURSIVE StringsOfLen(_)
StringsOfLen(n) ==
  IF n = 0 THEN {<<>>}
  ELSE {Append(s, c) : s \in StringsOfLen(n - 1), c \in Chars}

Strings == UNION {StringsOfLen(n) : n \in 0..MaxLen}

\* String.prototype.trimStart, as parseInt applies it to its input
RECURSIVE TrimStart(_)
TrimStart(s) ==
  IF s # <<>> /\ Head(s) \in WhiteSpace THEN TrimStart(Tail(s)) ELSE s

RECURSIVE TrimEnd(_)
TrimEnd(s) ==
  IF s # <<>> /\ s[Len(s)] \in WhiteSpace
  THEN TrimEnd(SubSeq(s, 1, Len(s) - 1)) ELSE s

\* String.prototype.trim
trim(s) == TrimEnd(TrimStart(s))

\* String.prototype.split(','): the pieces between the commas, empty ones kept
RECURSIVE split(_)
split(s) ==
  IF \A i \in 1..Len(s) : s[i] # ","
  THEN <<s>>
  ELSE LET i == CHOOSE j \in 1..Len(s) :
                  s[j] = "," /\ \A k \in 1..(j - 1) : s[k] # ","
       IN  <<SubSeq(s, 1, i - 1)>> \o split(SubSeq(s, i + 1, Len(s)))

\* the longest prefix of s made of decimal digits
RECURSIVE DigitPrefix(_)
DigitPrefix(s) ==
  IF s # <<>> /\ Head(s) \in Digits
  THEN <<Head(s)>> \o DigitPrefix(Tail(s))
  ELSE <<>>

RECURSIVE DecimalValue(_)
DecimalValue(ds) ==
  IF ds = <<>> THEN 0
  ELSE 10 * DecimalValue(SubSeq(ds, 1, Len(ds) - 1)) + DigitValue(ds[Len(ds)])

\* parseInt(string, 10): skip leading white space, take an optional sign,
\* read the longest run of digits and ignore whatever follows it; NaN when
\* there is no digit to read
parseInt(s) ==
  LET t    == TrimStart(s)
      neg  == t # <<>> /\ Head(t) = "-"
      body == IF t # <<>> /\ Head(t) \in {"-", "+"} THEN Tail(t) ELSE t
      ds   == DigitPrefix(body)
  IN  IF ds = <<>>
      THEN [isNaN |-> TRUE, value |-> 0]
      ELSE [isNaN |-> FALSE,
            value |-> IF neg THEN 0 - DecimalValue(ds) ELSE DecimalValue(ds)]

\* ------------------------------------------------------------------------
\* middleware/rateLimiter.js
\* ------------------------------------------------------------------------
DEFAULT_WINDOW_MS == 15 * 60 * 1000

DEFAULT_MAX_REQUESTS == 100

DEFAULT_STRICT_MAX_REQUESTS == 5

parseIntWithDefault_nonNegative(envValue, defaultValue) ==
  IF envValue = undefined \/ envValue = <<>>
  THEN defaultValue
  ELSE LET parsed == parseInt(envValue)
       IN  IF parsed.isNaN THEN defaultValue
           ELSE IF parsed.value >= 0 THEN parsed.value ELSE defaultValue

parseIntWithDefault(envValue, defaultValue) ==
  IF envValue = undefined \/ envValue = <<>>
  THEN defaultValue
  ELSE LET parsed == parseInt(envValue)
       IN  IF parsed.isNaN THEN defaultValue
           ELSE IF parsed.value > 0 THEN parsed.value ELSE defaultValue

rateLimiterMessage ==
  [status |-> 429,
   error |-> "Too Many Requests",
   message |-> "You have exceeded the rate limit. Please try again later."]

rateLimiterOptions_fixed(e) ==
  [windowMs |-> DEFAULT_WINDOW_MS,
   limit    |-> DEFAULT_MAX_REQUESTS,
   message  |-> rateLimiterMessage]

\* the options object handed to rateLimit() for the global limiter
rateLimiterOptions(e) ==
  [windowMs |-> parseIntWithDefault(e.RATE_LIMIT_WINDOW_MS, DEFAULT_WINDOW_MS),
   limit    |-> parseIntWithDefault(e.RATE_LIMIT_MAX, DEFAULT_MAX_REQUESTS),
   message  |-> rateLimiterMessage]

strictRateLimiterMessage ==
  [status |-> 429,
   error |-> "Too Many Requests",
   message |-> "Too many authentication attempts, please try again later."]

\* the options object handed to rateLimit() for the strict limiter: nothing
\* of it is read from the environment
strictRateLimiterOptions ==
  [windowMs |-> DEFAULT_WINDOW_MS,
   limit    |-> DEFAULT_STRICT_MAX_REQUESTS,
   message  |-> strictRateLimiterMessage]

\* ------------------------------------------------------------------------
\* Requests.  An absent string property is the empty string, which is falsy
\* as undefined is; the Origin header is a string or undefined, the
\* X-Forwarded-For header the list of its addresses, empty when it is absent
\* ------------------------------------------------------------------------
Addresses == {"10.0.0.1", "10.0.0.2"}

JsonType == "application/json"

FormType == "application/x-www-form-urlencoded"

\* '10kb' as the body parsers read it
BodyLimit == 10 * 1024

NoContent == [type |-> "", length |-> 0, wellFormed |-> TRUE]

NoHeaders == [origin |-> undefined, xForwardedFor |-> << >>]

Request(a, m, u, c) ==
  [remoteAddress |-> a, method |-> m, originalUrl |-> u, content |-> c,
   headers |-> NoHeaders]

Requests ==
  { Request("10.0.0.1", "GET", "/", NoContent),
    Request("10.0.0.2", "GET", "/", NoContent),
    Request("10.0.0.1", "GET", "/health", NoContent),
    Request("10.0.0.1", "GET", "/does-not-exist", NoContent),
    Request("10.0.0.2", "OPTIONS", "/does-not-exist", NoContent),
    Request("10.0.0.2", "POST", "/",
            [type |-> JsonType, length |-> BodyLimit, wellFormed |-> TRUE]),
    Request("10.0.0.1", "GET", "/",
            [type |-> JsonType, length |-> BodyLimit + 1, wellFormed |-> TRUE]),
    Request("10.0.0.2", "POST", "/health",
            [type |-> JsonType, length |-> 2, wellFormed |-> FALSE]) }

trustProxy_truthy(e) == IF e.TRUST_PROXY \notin {unset, ""} THEN 1 ELSE 0

\* if (process.env.TRUST_PROXY === 'true') app.set('trust proxy', 1): the
\* number of proxy hops the application trusts, none by default
trustProxy(e) == IF e.TRUST_PROXY = "true" THEN 1 ELSE 0

\* the request as the application hands it to its stack: req.app gives the
\* settings
appRequest(req, e) ==
  [remoteAddress |-> req.remoteAddress, method |-> req.method,
   originalUrl |-> req.originalUrl, content |-> req.content,
   headers |-> req.headers, app |-> [trustProxy |-> trustProxy(e)]]

\* req.ip: the connection address followed by the X-Forwarded-For addresses
\* from the nearest proxy outwards; the address after the trusted hops, the
\* last one there is when there are fewer
reqIp(req) ==
  LET xff   == req.headers.xForwardedFor
      addrs == <<req.remoteAddress>> \o
                 [i \in 1..Len(xff) |-> xff[Len(xff) + 1 - i]]
      n     == req.app.trustProxy
  IN  addrs[IF Len(addrs) > n THEN n + 1 ELSE Len(addrs)]

keyGenerator_byMethod(req) == req.method

keyGenerator_byUrl(req) == req.originalUrl

keyGenerator_shared(req) == "unknown"

\* keyGenerator: req.ip || req.socket.remoteAddress || 'unknown'
keyGenerator(req) ==
  IF reqIp(req) # "" THEN reqIp(req)
  ELSE IF req.remoteAddress # "" THEN req.remoteAddress
  ELSE "unknown"

\* ------------------------------------------------------------------------
\* One request/response exchange as it moves down the middleware stack
\* ------------------------------------------------------------------------
NoInfo == [limit |-> 0, used |-> 0, remaining |-> 0]

NoError == [name |-> ""]

NoBody == [empty |-> TRUE]

NewExchange(req) ==
  [req       |-> req,
   visited   |-> <<>>,
   rateLimit |-> NoInfo,
   headers   |-> {},
   allowOrigin |-> undefined,
   status    |-> 0,
   type      |-> "",
   body      |-> NoBody,
   err       |-> NoError,
   warned    |-> <<>>,
   errored   |-> <<>>,
   ended     |-> FALSE,
   awaiting  |-> 0]

Visit(x, stage) == [x EXCEPT !.visited = Append(@, stage)]

\* res.status(code).json(obj)
Json(x, code, obj) ==
  [x EXCEPT !.status = code, !.type = "application/json", !.body = obj,
            !.ended = TRUE]

handler_respondsAndPassesOn(x, options) ==
  [Json([x EXCEPT !.warned = Append(@,
           [ip     |-> IF reqIp(x.req) # "" THEN reqIp(x.req)
                       ELSE IF x.req.remoteAddress # "" THEN x.req.remoteAddress
                       ELSE "unknown",
            path   |-> IF x.req.originalUrl # "" THEN x.req.originalUrl ELSE "/",
            limit  |-> options.limit,
            window |-> options.windowMs])],
        429, options.message)
     EXCEPT !.ended = FALSE]

handler_passesOn(x, options) ==
  [x EXCEPT !.warned = Append(@,
      [ip     |-> IF reqIp(x.req) # "" THEN reqIp(x.req)
                  ELSE IF x.req.remoteAddress # "" THEN x.req.remoteAddress
                  ELSE "unknown",
       path   |-> IF x.req.originalUrl # "" THEN x.req.originalUrl ELSE "/",
       limit  |-> options.limit,
       window |-> options.windowMs])]

\* rateLimiter.handler: warn with client, path, limit and window, then
\* res.status(429).json(options.message); next is not called
handler(x, options) ==
  Json([x EXCEPT !.warned = Append(@,
          [ip     |-> IF reqIp(x.req) # "" THEN reqIp(x.req)
                      ELSE IF x.req.remoteAddress # "" THEN x.req.remoteAddress
                      ELSE "unknown",
           path   |-> IF x.req.originalUrl # "" THEN x.req.originalUrl ELSE "/",
           limit  |-> options.limit,
           window |-> options.windowMs])],
       429, options.message)

\* ------------------------------------------------------------------------
\* config/security.js
\* ------------------------------------------------------------------------
\* 'http://localhost:3000' and 'http://localhost:8080'
LocalOrigin3000 ==
  << "h", "t", "t", "p", ":", "/", "/", "l", "o", "c", "a", "l", "h", "o",
     "s", "t", ":", "3", "0", "0", "0" >>

LocalOrigin8080 ==
  << "h", "t", "t", "p", ":", "/", "/", "l", "o", "c", "a", "l", "h", "o",
     "s", "t", ":", "8", "0", "8", "0" >>

helmetConfig ==
  { "Content-Security-Policy: default-src 'self';script-src 'self';style-src 'self' 'unsafe-inline';img-src 'self' data:;font-src 'self';object-src 'none';upgrade-insecure-requests",
    "Strict-Transport-Security: max-age=31536000; includeSubDomains; preload",
    "X-Frame-Options: SAMEORIGIN",
    "X-Content-Type-Options: nosniff",
    "Referrer-Policy: strict-origin-when-cross-origin",
    "Cross-Origin-Embedder-Policy: require-corp",
    "Cross-Origin-Opener-Policy: same-origin",
    "Cross-Origin-Resource-Policy: same-origin" }

parseAllowedOrigins_withDefaults(e) ==
  IF e.ALLOWED_ORIGINS # undefined /\ e.ALLOWED_ORIGINS # << >>
  THEN LET parts == split(e.ALLOWED_ORIGINS)
       IN  SelectSeq([i \in 1..Len(parts) |-> trim(parts[i])],
                     LAMBDA origin : Len(origin) > 0)
             \o << LocalOrigin3000, LocalOrigin8080 >>
  ELSE << LocalOrigin3000, LocalOrigin8080 >>

\* the ALLOWED_ORIGINS entries, trimmed, the empty ones dropped; the
\* development defaults when the variable is unset or empty
parseAllowedOrigins(e) ==
  IF e.ALLOWED_ORIGINS # undefined /\ e.ALLOWED_ORIGINS # << >>
  THEN LET parts == split(e.ALLOWED_ORIGINS)
       IN  SelectSeq([i \in 1..Len(parts) |-> trim(parts[i])],
                     LAMBDA origin : Len(origin) > 0)
  ELSE << LocalOrigin3000, LocalOrigin8080 >>

corsOptions(e) ==
  [origin               |-> parseAllowedOrigins(e),
   methods              |-> "GET,POST,PUT,DELETE,PATCH,OPTIONS",
   allowedHeaders       |-> "Content-Type,Authorization,X-Requested-With",
   credentials          |-> TRUE,
   maxAge               |-> 86400,
   optionsSuccessStatus |-> 204]

\* ------------------------------------------------------------------------
\* app.js: the stages of the middleware stack
\* ------------------------------------------------------------------------
\* a stage that calls next(err)
Raise(x, e) == [x EXCEPT !.err = e]

\* helmet(securityConfig.helmet): set the security headers and pass on
helmet(x) == [x EXCEPT !.headers = @ \cup helmetConfig]

\* with an array of origins the request's Origin is allowed when it equals
\* one of them
isOriginAllowed(origin, allowedOrigin) ==
  \E i \in 1..Len(allowedOrigin) : origin = allowedOrigin[i]

\* cors(corsOptions): Access-Control-Allow-Origin echoes the request's Origin
\* when it is allowed and is left out otherwise; an OPTIONS request is a
\* preflight and is answered here with optionsSuccessStatus; any other
\* request is passed on
cors(x, options) ==
  LET requestOrigin == x.req.headers.origin
      y == [x EXCEPT !.headers = @ \cup
              {"Vary: Origin", "Access-Control-Allow-Credentials: true"},
                     !.allowOrigin =
                        IF isOriginAllowed(requestOrigin, options.origin)
                        THEN requestOrigin ELSE undefined]
  IN  IF x.req.method = "OPTIONS"
      THEN [y EXCEPT !.headers = @ \cup
                       {"Access-Control-Allow-Methods: GET,POST,PUT,DELETE,PATCH,OPTIONS",
                        "Access-Control-Allow-Headers: Content-Type,Authorization,X-Requested-With",
                        "Access-Control-Max-Age: 86400"},
                     !.status = options.optionsSuccessStatus,
                     !.ended = TRUE]
      ELSE y

PayloadTooLarge ==
  [name |-> "PayloadTooLargeError", status |-> 413, statusCode |-> 413,
   message |-> "request entity too large",
   stack |-> "PayloadTooLargeError: request entity too large"]

ParseFailed ==
  [name |-> "SyntaxError", status |-> 400, statusCode |-> 400,
   message |-> "Unexpected token in JSON",
   stack |-> "SyntaxError: Unexpected token in JSON"]

bodyParser_unlimited(x, contentType) ==
  LET c == x.req.content
  IN  IF c.length = 0 \/ c.type # contentType THEN x
      ELSE IF ~c.wellFormed THEN Raise(x, ParseFailed)
      ELSE x

\* a body parser with { limit: '10kb' } for one content type: bodies of other
\* types and empty bodies pass untouched, a body over the limit or one that
\* does not parse is raised as an error.  Reading the body touches no state
\* shared between requests, so it is part of the step that runs the stack.
bodyParser(x, contentType) ==
  LET c == x.req.content
  IN  IF c.length = 0 \/ c.type # contentType THEN x
      ELSE IF c.length > BodyLimit THEN Raise(x, PayloadTooLarge)
      ELSE IF ~c.wellFormed THEN Raise(x, ParseFailed)
      ELSE x

getRoot_alsoNext(x) ==
  [x EXCEPT !.status = 200, !.type = "text/plain",
            !.body = [text |-> "Hello, World!\n"]]

getRoot_html(x) ==
  [x EXCEPT !.status = 200, !.type = "text/html",
            !.body = [text |-> "Hello, World!\n"], !.ended = TRUE]

\* res.status(200).type('text/plain').send('Hello, World!\n')
getRoot(x) ==
  [x EXCEPT !.status = 200, !.type = "text/plain",
            !.body = [text |-> "Hello, World!\n"], !.ended = TRUE]

\* res.status(200).json({status, timestamp, uptime})
getHealth(x, clock) ==
  Json(x, 200, [status |-> "healthy", timestamp |-> clock, uptime |-> clock])

notFound_noPath(x) ==
  Json(x, 404,
       [status  |-> 404,
        error   |-> "Not Found",
        message |-> "The requested resource could not be found"])

\* res.status(404).json({status, error, message, path: req.originalUrl})
notFound(x) ==
  Json(x, 404,
       [status  |-> 404,
        error   |-> "Not Found",
        message |-> "The requested resource could not be found",
        path    |-> x.req.originalUrl])

\* a numeric, a string property of an error object that is set and truthy
TruthyNumber(e, f) == f \in DOMAIN e /\ e[f] # 0

TruthyString(e, f) == f \in DOMAIN e /\ e[f] # ""

GenericMessage == "An unexpected error occurred"

errorResponse_alwaysStack(e, nodeEnv) ==
  LET statusCode == IF TruthyNumber(e, "status") THEN e.status
                    ELSE IF TruthyNumber(e, "statusCode") THEN e.statusCode
                    ELSE 500
      isProduction == nodeEnv = "production"
      base == [status  |-> statusCode,
               error   |-> IF statusCode = 500 THEN "Internal Server Error"
                           ELSE "Error",
               message |-> IF isProduction /\ statusCode = 500
                           THEN GenericMessage
                           ELSE IF TruthyString(e, "message") THEN e.message
                           ELSE GenericMessage]
  IN  IF TruthyString(e, "stack")
      THEN [f \in {"status", "error", "message", "stack"} |->
              IF f = "stack" THEN e.stack ELSE base[f]]
      ELSE base

errorResponse_always500(e, nodeEnv) ==
  LET statusCode == 500
      isProduction == nodeEnv = "production"
      base == [status  |-> statusCode,
               error   |-> IF statusCode = 500 THEN "Internal Server Error"
                           ELSE "Error",
               message |-> IF isProduction /\ statusCode = 500
                           THEN GenericMessage
                           ELSE IF TruthyString(e, "message") THEN e.message
                           ELSE GenericMessage]
  IN  IF ~isProduction /\ TruthyString(e, "stack")
      THEN [f \in {"status", "error", "message", "stack"} |->
              IF f = "stack" THEN e.stack ELSE base[f]]
      ELSE base

\* the errorResponse object the global error handler builds
errorResponse(e, nodeEnv) ==
  LET statusCode == IF TruthyNumber(e, "status") THEN e.status
                    ELSE IF TruthyNumber(e, "statusCode") THEN e.statusCode
                    ELSE 500
      isProduction == nodeEnv = "production"
      base == [status  |-> statusCode,
               error   |-> IF statusCode = 500 THEN "Internal Server Error"
                           ELSE "Error",
               message |-> IF isProduction /\ statusCode = 500
                           THEN GenericMessage
                           ELSE IF TruthyString(e, "message") THEN e.message
                           ELSE GenericMessage]
  IN  IF ~isProduction /\ TruthyString(e, "stack")
      THEN [f \in {"status", "error", "message", "stack"} |->
              IF f = "stack" THEN e.stack ELSE base[f]]
      ELSE base

errorHandler_silent(x, nodeEnv) ==
  LET r == errorResponse(x.err, nodeEnv)
  IN  Json(x, r.status, r)

\* the global error handler: console.error the message and the stack, then
\* res.status(statusCode).json(errorResponse)
errorHandler(x, nodeEnv) ==
  LET r == errorResponse(x.err, nodeEnv)
  IN  Json([x EXCEPT !.errored = @ \o
              << IF "message" \in DOMAIN x.err THEN x.err.message ELSE "undefined",
                 IF "stack" \in DOMAIN x.err THEN x.err.stack ELSE "undefined" >>],
           r.status, r)

\* Express's last resort when the stack is exhausted: a bare 404, or the
\* status of the pending error
finalhandler(x) ==
  [x EXCEPT !.status = IF x.err = NoError THEN 404
                       ELSE IF TruthyNumber(x.err, "status") THEN x.err.status
                       ELSE 500,
            !.type = "text/html",
            !.ended = TRUE]

stack_helmetFirst ==
  << "helmet", "rateLimiter", "cors", "json", "urlencoded",
     "getRoot", "getHealth", "notFound", "errorHandler" >>

\* the layers in the order app.use / app.get register them
stack ==
  << "rateLimiter", "helmet", "cors", "json", "urlencoded",
     "getRoot", "getHealth", "notFound", "errorHandler" >>

\* app.get(path) serves GET and HEAD of exactly that path
RouteMatches(path, req) ==
  req.method \in {"GET", "HEAD"} /\ req.originalUrl = path

\* whether a layer takes the exchange: with an error pending only the
\* four-argument handler does, without one every other layer whose route matches
Matches(layer, x) ==
  IF x.err # NoError THEN layer = "errorHandler"
  ELSE CASE layer = "errorHandler" -> FALSE
         [] layer = "getRoot"      -> RouteMatches("/", x.req)
         [] layer = "getHealth"    -> RouteMatches("/health", x.req)
         [] OTHER                  -> TRUE

\* one synchronous layer applied to the exchange
Run(layer, x, e, clock) ==
  CASE layer = "helmet"       -> helmet(x)
    [] layer = "cors"         -> cors(x, corsOptions(e))
    [] layer = "json"         -> bodyParser(x, JsonType)
    [] layer = "urlencoded"   -> bodyParser(x, FormType)
    [] layer = "getRoot"      -> getRoot(x)
    [] layer = "getHealth"    -> getHealth(x, clock)
    [] layer = "notFound"     -> notFound(x)
    [] layer = "errorHandler" -> errorHandler(x, e.NODE_ENV)

\* run the exchange down the stack from layer i until a response is sent or
\* the rate limiter is entered, which waits for its store before it decides
RECURSIVE Dispatch(_, _, _, _)
Dispatch(x, i, e, clock) ==
  IF x.ended THEN x
  ELSE IF i > Len(stack) THEN finalhandler(x)
  ELSE IF ~Matches(stack[i], x) THEN Dispatch(x, i + 1, e, clock)
  ELSE IF stack[i] = "rateLimiter"
       THEN [Visit(x, "rateLimiter") EXCEPT !.awaiting = i]
       ELSE Dispatch(Run(stack[i], Visit(x, stack[i]), e, clock), i + 1, e, clock)

\* ------------------------------------------------------------------------
\* The counter table of the rate limiter
\* ------------------------------------------------------------------------
\* whether the window of key's record has closed (or there is no record)
Elapsed(st, key, clock, windowMs) ==
  key \notin DOMAIN st \/ clock - st[key].windowStart >= windowMs

\* locate or create the record, reset it when its window has elapsed,
\* then count the request
increment(st, key, clock, windowMs) ==
  (key :> IF Elapsed(st, key, clock, windowMs)
          THEN [count |-> 1, windowStart |-> clock]
          ELSE [st[key] EXCEPT !.count = @ + 1]) @@ st

\* what the rate limiter does once the store has counted the request: record
\* the quota on the request, then reject through the handler or pass on
rateLimited(x, totalHits, options) ==
  LET y == [x EXCEPT !.rateLimit =
              [limit     |-> options.limit,
               used      |-> totalHits,
               remaining |-> IF options.limit > totalHits
                             THEN options.limit - totalHits ELSE 0],
                     !.headers = @ \cup {"RateLimit-Policy", "RateLimit"},
                     !.awaiting = 0]
  IN  IF totalHits > options.limit THEN handler(y, options) ELSE y

\* ------------------------------------------------------------------------
\* config/https.js: loading the certificates and creating the TLS listener
\* ------------------------------------------------------------------------
DEFAULT_HTTPS_PORT == 443

\* a JavaScript value that is a number, a string
Number(n) == [type |-> "number", value |-> n]

String(s) == [type |-> "string", value |-> s]

\* parseInt(value, 10) of a number or a string
parseIntOf(v) ==
  IF v.type = "number" THEN [isNaN |-> FALSE, value |-> v.value]
  ELSE parseInt(v.value)

Threw(message) == [threw |-> TRUE, message |-> message]

readFileSync(state) ==
  CASE state = "unreadable" ->
         Threw("Failed to load SSL certificates: Permission denied when reading certificate files.")
    [] state = "directory" ->
         Threw("Failed to load SSL certificates: Certificate path points to a directory instead of a file.")
    [] OTHER -> [threw |-> FALSE, content |-> state]

loadCertificates_acceptsEmpty(fs) ==
  IF fs.key = "missing" THEN Threw("SSL private key file not found.")
  ELSE IF fs.cert = "missing" THEN Threw("SSL certificate file not found.")
  ELSE IF readFileSync(fs.key).threw THEN readFileSync(fs.key)
  ELSE IF readFileSync(fs.cert).threw THEN readFileSync(fs.cert)
  ELSE [threw |-> FALSE, key |-> fs.key, cert |-> fs.cert]

\* loadCertificates: both files must exist, then both are read, the key
\* first, and both must be non-empty; an error of reading is worded anew
loadCertificates(fs) ==
  IF fs.key = "missing" THEN Threw("SSL private key file not found.")
  ELSE IF fs.cert = "missing" THEN Threw("SSL certificate file not found.")
  ELSE IF readFileSync(fs.key).threw THEN readFileSync(fs.key)
  ELSE IF readFileSync(fs.cert).threw THEN readFileSync(fs.cert)
  ELSE IF fs.key = "empty" THEN Threw("SSL private key file is empty")
  ELSE IF fs.cert = "empty" THEN Threw("SSL certificate file is empty")
  ELSE [threw |-> FALSE, key |-> fs.key, cert |-> fs.cert]

\* a net.Server: starting until its listen call has succeeded or failed
Server(state) == [state |-> state, connections |-> 0, onClose |-> << >>]

\* createSecureServer(app, port): throws for a port that is not a number in
\* 0..65535, for certificates that do not load and for ones https.createServer
\* does not accept; otherwise returns the server, its listen call pending
createSecureServer(fs, port) ==
  LET portNumber == parseIntOf(port)
  IN  IF portNumber.isNaN \/ portNumber.value < 0 \/ portNumber.value > 65535
      THEN [threw |-> TRUE, message |-> "Invalid port number", lines |-> {}]
      ELSE LET certificates == loadCertificates(fs)
               message ==
                 IF certificates.threw THEN certificates.message
                 ELSE "error:0480006C:PEM routines::no start line"
           IN  IF certificates.threw
                  \/ "invalid" \in {certificates.key, certificates.cert}
               THEN [threw |-> TRUE, message |-> message,
                     lines |-> { <<"Initializing HTTPS server...">>,
                                 <<"Failed to create HTTPS server:", message>> }]
               ELSE [threw |-> FALSE, server |-> Server("starting"),
                     lines |-> { <<"Initializing HTTPS server...">> }]

\* ------------------------------------------------------------------------
\* server.js, and the earlier server.js kept as unnamed/part_000: each
\* handler takes the state of the process and gives the state it leaves
\* ------------------------------------------------------------------------
SHUTDOWN_TIMEOUT == 10000

\* const PORT = process.env.PORT || 3000
PORT(e) ==
  IF e.PORT # undefined /\ e.PORT # << >>
  THEN String(e.PORT) ELSE Number(3000)

\* const port = parseInt(process.env.PORT, 10) || 3000
part000_port(e) ==
  LET parsed == parseInt(e.PORT)
  IN  IF parsed.isNaN \/ parsed.value = 0 THEN Number(3000)
      ELSE Number(parsed.value)

\* const HTTPS_PORT = process.env.HTTPS_PORT || 443
HTTPS_PORT(e) ==
  IF e.HTTPS_PORT # undefined /\ e.HTTPS_PORT # << >>
  THEN String(e.HTTPS_PORT) ELSE Number(443)

\* const httpsPort = parseInt(process.env.HTTPS_PORT, 10) || 443
part000_httpsPort(e) ==
  LET parsed == parseInt(e.HTTPS_PORT)
  IN  IF parsed.isNaN \/ parsed.value = 0 THEN Number(443)
      ELSE Number(parsed.value)

\* const ENABLE_HTTPS = process.env.ENABLE_HTTPS === 'true'
ENABLE_HTTPS(e) == e.ENABLE_HTTPS = "true"

consoleLine(m, line) == [m EXCEPT !.log = @ \cup {line}]

consoleLines(m, lines) == [m EXCEPT !.log = @ \cup lines]

\* process.exit(code); by names the call that exited
exit(m, code, by) ==
  [m EXCEPT !.process = [state |-> "exited", exitCode |-> code, by |-> by]]

Running(m) == m.process.state = "running"

\* the module body of server.js: create the plain listener, then the TLS
\* listener when it is enabled, a failure of which is logged and survived
main(m, e, fs) ==
  LET m1 == [m EXCEPT !.httpServer = Server("starting"),
                      !.process = [state |-> "running"]]
  IN  IF ENABLE_HTTPS(e)
      THEN LET created == createSecureServer(fs, HTTPS_PORT(e))
           IN  IF created.threw
               THEN consoleLines(m1, created.lines \cup
                      { <<"Failed to start HTTPS server:", created.message>>,
                        <<"Troubleshooting steps:">>,
                        <<"HTTP server will continue running without HTTPS.">> })
               ELSE consoleLines([m1 EXCEPT !.httpsServer = created.server],
                      created.lines \cup { <<"HTTPS Server running on port">> })
      ELSE consoleLine(m1, <<"HTTPS disabled. Set ENABLE_HTTPS=true to enable secure server.">>)

part000_main(m, e, fs) ==
  LET m1 == [m EXCEPT !.httpServer = Server("starting"),
                      !.process = [state |-> "running"]]
  IN  IF ENABLE_HTTPS(e)
      THEN LET created == createSecureServer(fs, part000_httpsPort(e))
           IN  IF created.threw
               THEN consoleLines(m1, created.lines \cup
                      { <<"Warning: Failed to start HTTPS server:", created.message>>,
                        <<"Continuing with HTTP server only...">> })
               ELSE consoleLines([m1 EXCEPT !.httpsServer = created.server],
                      created.lines \cup { <<"HTTPS Server running on port">> })
      ELSE m1

uncaughtException_logsOnly(m, error) ==
  consoleLine(m, <<"Uncaught Exception:", error>>)

\* process.on('uncaughtException'): log the error and exit with 1
uncaughtException(m, error) ==
  exit(consoleLine(m, <<"Uncaught Exception:", error>>), 1, "uncaughtException")

\* process.on('unhandledRejection'): log the promise and the reason and exit
\* with 1
unhandledRejection(m, reason) ==
  exit(consoleLines(m, { <<"Unhandled Promise Rejection at:">>,
                         <<"Reason:", reason>> }),
       1, "unhandledRejection")

\* the earlier script installs neither handler: node itself prints the error
\* and exits with 1, a rejection nobody handles being thrown as an exception
part000_uncaughtException(m, error) ==
  exit(consoleLine(m, <<error>>), 1, "uncaughtException")

part000_unhandledRejection(m, reason) ==
  exit(consoleLine(m, <<reason>>), 1, "unhandledRejection")

\* httpServer.on('error'): a listen error for lack of privileges or for a
\* port in use is explained and the process exits with 1; any other error is
\* thrown again, out of the event handler
httpError(m, error) ==
  IF error.syscall # "listen" THEN uncaughtException(m, error.message)
  ELSE CASE error.code = "EACCES" ->
              exit(consoleLines(m,
                     { <<"Port ${PORT} requires elevated privileges">>,
                       <<"Try running with sudo or use a port above 1024">> }),
                   1, "httpError")
         [] error.code = "EADDRINUSE" ->
              exit(consoleLines(m,
                     { <<"Port ${PORT} is already in use">>,
                       <<"Please stop the existing server or use a different port">> }),
                   1, "httpError")
         [] OTHER -> uncaughtException(m, error.message)

part000_httpError(m, error) ==
  IF error.syscall # "listen" THEN part000_uncaughtException(m, error.message)
  ELSE CASE error.code = "EACCES" ->
              exit(consoleLine(m, <<"${bind} requires elevated privileges">>),
                   1, "httpError")
         [] error.code = "EADDRINUSE" ->
              exit(consoleLine(m, <<"${bind} is already in use">>),
                   1, "httpError")
         [] OTHER -> part000_uncaughtException(m, error.message)

\* createSecureServer's server.on('error'): the error is logged, nothing else
httpsError(m, error) ==
  consoleLine(m,
    CASE error.code = "EADDRINUSE" ->
           <<"HTTPS Server Error: Port ${portNumber} is already in use">>
      [] error.code = "EACCES" ->
           <<"HTTPS Server Error: Permission denied for port ${portNumber}.">>
      [] OTHER -> <<"HTTPS Server Error:", error.message>>)

\* server.close(callback): stop accepting connections and call back once all
\* connections have ended, with an error if the server was not listening
close(server, callback) ==
  [server EXCEPT
     !.state = IF @ \in {"starting", "listening"} THEN "closing" ELSE @,
     !.onClose = Append(@, [callback EXCEPT
                   !.err = server.state \notin {"starting", "listening"}])]

Callback(i, of) == [shutdown |-> i, of |-> of, err |-> FALSE]

checkAndExit_either(m, i) ==
  IF m.shutdowns[i].httpClosed \/ m.shutdowns[i].httpsClosed
  THEN exit(consoleLines(m, { <<"All servers closed successfully.">>,
                              <<"Graceful shutdown complete.">> }),
            0, "checkAndExit")
  ELSE m

\* checkAndExit of the i-th call of gracefulShutdown
checkAndExit(m, i) ==
  IF m.shutdowns[i].httpClosed /\ m.shutdowns[i].httpsClosed
  THEN exit(consoleLines(m, { <<"All servers closed successfully.">>,
                              <<"Graceful shutdown complete.">> }),
            0, "checkAndExit")
  ELSE m

\* the callbacks gracefulShutdown hands to httpServer.close, httpsServer.close
httpClosed(m, cb) ==
  checkAndExit(
    [consoleLine(m, IF cb.err THEN <<"Error closing HTTP server:">>
                    ELSE <<"HTTP server closed.">>)
       EXCEPT !.shutdowns[cb.shutdown].httpClosed = TRUE],
    cb.shutdown)

httpsClosed(m, cb) ==
  checkAndExit(
    [consoleLine(m, IF cb.err THEN <<"Error closing HTTPS server:">>
                    ELSE <<"HTTPS server closed.">>)
       EXCEPT !.shutdowns[cb.shutdown].httpsClosed = TRUE],
    cb.shutdown)

gracefulShutdown_httpOnly(m, clock) ==
  [consoleLines(m, { <<"received. Starting graceful shutdown...">>,
                     <<"Closing HTTP server...">> })
     EXCEPT !.shutdowns = Append(@,
               [httpClosed  |-> FALSE,
                httpsClosed |-> TRUE,
                deadline    |-> clock + SHUTDOWN_TIMEOUT]),
            !.httpServer = close(@, Callback(Len(m.shutdowns) + 1, "http"))]

\* gracefulShutdown(signal): close both listeners, each with its callback,
\* and set the timer that forces the exit
gracefulShutdown(m, clock) ==
  LET i  == Len(m.shutdowns) + 1
      m1 == [consoleLines(m, { <<"received. Starting graceful shutdown...">>,
                               <<"Closing HTTP server...">> })
               EXCEPT !.shutdowns = Append(@,
                         [httpClosed  |-> FALSE,
                          httpsClosed |-> (m.httpsServer = null),
                          deadline    |-> clock + SHUTDOWN_TIMEOUT]),
                      !.httpServer = close(@, Callback(i, "http"))]
  IN  IF m.httpsServer # null
      THEN [consoleLine(m1, <<"Closing HTTPS server...">>)
              EXCEPT !.httpsServer = close(@, Callback(i, "https"))]
      ELSE m1

forceExit_logsOnly(m) ==
  consoleLine(m, <<"Could not close connections in time, forcefully shutting down">>)

\* the timer of gracefulShutdown
forceExit(m) ==
  exit(consoleLine(m, <<"Could not close connections in time, forcefully shutting down">>),
       1, "SHUTDOWN_TIMEOUT")

\* the earlier gracefulShutdown closes the plain listener only; its callback
\* closes the TLS listener, whose callback exits
part000_gracefulShutdown(m, clock) ==
  [consoleLine(m, <<"Starting graceful shutdown...">>)
     EXCEPT !.shutdowns = Append(@,
               [httpClosed  |-> FALSE,
                httpsClosed |-> FALSE,
                deadline    |-> clock + 10000]),
            !.httpServer = close(@, Callback(Len(m.shutdowns) + 1, "http"))]

part000_httpClosed(m, cb) ==
  LET m1 == consoleLine(m, <<"HTTP Server closed">>)
  IN  IF m1.httpsServer # null
      THEN [m1 EXCEPT !.httpsServer = close(@, Callback(cb.shutdown, "https"))]
      ELSE exit(m1, 0, "httpServer.close")

part000_httpsClosed(m, cb) ==
  exit(consoleLine(m, <<"HTTPS Server closed">>), 0, "httpsServer.close")

part000_forceExit(m) ==
  exit(consoleLine(m, <<"Forced shutdown after timeout">>), 1, "SHUTDOWN_TIMEOUT")

\* the callbacks waiting for a server's 'close' event run in the order they
\* were registered, until one of them exits
RECURSIVE emitClose(_, _, _)
emitClose(callbacks, m, s) ==
  IF callbacks = << >> \/ ~Running(m) THEN m
  ELSE LET cb == Head(callbacks)
       IN  emitClose(Tail(callbacks),
             CASE s = "server.js" /\ cb.of = "http"  -> httpClosed(m, cb)
               [] s = "server.js" /\ cb.of = "https" -> httpsClosed(m, cb)
               [] s = "part_000" /\ cb.of = "http"   -> part000_httpClosed(m, cb)
               [] s = "part_000" /\ cb.of = "https"  -> part000_httpsClosed(m, cb),
             s)

\* ------------------------------------------------------------------------
\* State
\* ------------------------------------------------------------------------
VARIABLES
  env,          \* process.env, read once at start
  now,          \* Date.now(), in milliseconds since start
  store,        \* the counter table: key -> [count, windowStart]
  inflight,     \* the bag of exchanges waiting in the stack
  completed,    \* the exchange the latest step answered, None if it answered none
  console,      \* the most recent line written by console.warn
  envValue,     \* argument of a lone call of parseIntWithDefault
  defaultValue, \* its default
  parsedResult, \* and what it returned
  script,       \* the entry point node runs: server.js or the earlier one
  files,        \* the key and certificate files as the file system has them
  httpServer,   \* the plain listener, null before it is created
  httpsServer,  \* the TLS listener, null unless it was created
  shutdowns,    \* one entry per call of gracefulShutdown: its flags and timer
  process,      \* loading, running, or exited with its exit code
  log,          \* the lines written to the console by the server scripts
  fault,        \* the failure no code handled that has struck, none at first
  configured,   \* the settings the modules took from the environment at load
  validation    \* one call of the middleware validateRequest returned

appVars == <<env, now, store, inflight, completed, console>>

parseVars == <<envValue, defaultValue, parsedResult>>

serverVars ==
  <<script, files, httpServer, httpsServer, shutdowns, process, log, fault>>

otherVars == <<configured, validation>>

vars == <<env, now, store, inflight, completed, console,
          envValue, defaultValue, parsedResult,
          script, files, httpServer, httpsServer, shutdowns, process, log,
          fault, configured, validation>>

None == [none |-> TRUE]

NoLine == [line |-> FALSE]

Environment(w, m, n) ==
  [RATE_LIMIT_WINDOW_MS |-> w, RATE_LIMIT_MAX |-> m, NODE_ENV |-> n,
   TRUST_PROXY |-> unset, ALLOWED_ORIGINS |-> undefined]

Environments ==
  { Environment(<<"2">>, <<"2">>, "production"),
    Environment(undefined, <<"1">>, "development"),
    Environment(<<"2">>, <<"0">>, unset) }

NotReturned == [returned |-> FALSE, value |-> 0]

NotLoaded == [loaded |-> FALSE]

NotCalled == [pc |-> "idle"]

AppIdle ==
  /\ env = Environment(undefined, undefined, unset)
  /\ now = 0
  /\ store = << >>
  /\ inflight = EmptyBag
  /\ completed = None
  /\ console = NoLine

ParseIdle ==
  /\ envValue = undefined
  /\ defaultValue = 0
  /\ parsedResult = NotReturned

OtherIdle ==
  /\ configured = NotLoaded
  /\ validation = NotCalled

\* the server script is not under study: the application is driven directly
ServerIdle ==
  /\ script = "server.js"
  /\ files = [key |-> "ok", cert |-> "ok"]
  /\ httpServer = null
  /\ httpsServer = null
  /\ shutdowns = << >>
  /\ process = [state |-> "loading"]
  /\ log = {}
  /\ fault = "none"

\* ------------------------------------------------------------------------
\* The running application
\* ------------------------------------------------------------------------
Init ==
  /\ env \in Environments
  /\ now = 0
  /\ store = << >>
  /\ inflight = EmptyBag
  /\ completed = None
  /\ console = NoLine
  /\ ParseIdle
  /\ ServerIdle
  /\ OtherIdle

\* the count a new request of this key would be added to
OpenCount(key) ==
  IF Elapsed(store, key, now, rateLimiterOptions(env).windowMs)
  THEN 0 ELSE store[key].count

RECURSIVE Copies(_, _)
Copies(B, S) ==
  IF S = {} THEN 0
  ELSE LET x == CHOOSE y \in S : TRUE
       IN  CopiesIn(x, B) + Copies(B, S \ {x})

\* the number of waiting exchanges whose request has this key
Waiting(key) ==
  Copies(inflight, {x \in BagToSet(inflight) : keyGenerator(x.req) = key})

\* what an answered exchange leaves behind
Answer(x) ==
  /\ completed' = x
  /\ console' = IF x.warned # <<>> THEN x.warned[Len(x.warned)] ELSE console

\* a request arrives on a new connection and enters the stack
Receive(req) ==
  /\ BagCardinality(inflight) < MaxInFlight
  /\ LET r == appRequest(req, env)
         x == Dispatch(NewExchange(r), 1, env, now)
     IN  /\ OpenCount(keyGenerator(r)) + Waiting(keyGenerator(r)) < MaxHits
         /\ IF x.ended
            THEN Answer(x) /\ UNCHANGED inflight
            ELSE /\ inflight' = inflight (+) SetToBag({x})
                 /\ completed' = None
                 /\ UNCHANGED console
  /\ UNCHANGED <<env, now, store, parseVars, serverVars, otherVars>>

\* the store has counted the request: the rate limiter decides, and an
\* accepted request runs down the rest of the stack to its response
RateLimit(x) ==
  /\ BagIn(x, inflight)
  /\ LET options == rateLimiterOptions(env)
         key     == keyGenerator(x.req)
         st      == increment(store, key, now, options.windowMs)
         y       == rateLimited(x, st[key].count, options)
     IN  /\ store' = st
         /\ Answer(Dispatch(y, x.awaiting + 1, env, now))
  /\ inflight' = inflight (-) SetToBag({x})
  /\ UNCHANGED <<env, now, parseVars, serverVars, otherVars>>

\* time passes
Tick ==
  /\ now < MaxNow
  /\ now' = now + 1
  /\ completed' = None
  /\ UNCHANGED <<env, store, inflight, console, parseVars, serverVars, otherVars>>

Next ==
  \/ \E req \in Requests : Receive(req)
  \/ \E x \in BagToSet(inflight) : RateLimit(x)
  \/ Tick

Spec == Init /\ [][Next]_vars

\* ------------------------------------------------------------------------
\* The application receiving requests with bodies around the 10KB limit, of
\* each kind, method and path
\* ------------------------------------------------------------------------
TextType == "text/plain"

Body(t, n) == [type |-> t, length |-> n, wellFormed |-> TRUE]

BodyRequests ==
  { Request("10.0.0.1", "GET", "/", Body(JsonType, BodyLimit + 1)),
    Request("10.0.0.1", "POST", "/health", Body(FormType, BodyLimit + 1)),
    Request("10.0.0.1", "OPTIONS", "/", Body(JsonType, BodyLimit + 1)),
    Request("10.0.0.1", "GET", "/does-not-exist", Body(FormType, 2 * BodyLimit)),
    Request("10.0.0.1", "POST", "/", Body(FormType, BodyLimit)),
    Request("10.0.0.1", "GET", "/health", Body(TextType, BodyLimit + 1)) }

BodyInit ==
  /\ env = Environment(<<"2">>, <<"2">>, "production")
  /\ now = 0
  /\ store = << >>
  /\ inflight = EmptyBag
  /\ completed = None
  /\ console = NoLine
  /\ ParseIdle
  /\ ServerIdle
  /\ OtherIdle

BodyNext ==
  \/ \E req \in BodyRequests : Receive(req)
  \/ \E x \in BagToSet(inflight) : RateLimit(x)
  \/ Tick

SpecBody == BodyInit /\ [][BodyNext]_vars

\* ------------------------------------------------------------------------
\* The application started with every bounded value of ALLOWED_ORIGINS and
\* receiving requests with and without an Origin header
\* ------------------------------------------------------------------------
OriginChars == {"a", "b", ",", " "}

RECURSIVE OriginStringsOfLen(_)
OriginStringsOfLen(n) ==
  IF n = 0 THEN {<<>>}
  ELSE {Append(s, c) : s \in OriginStringsOfLen(n - 1), c \in OriginChars}

OriginStrings == UNION {OriginStringsOfLen(n) : n \in 0..MaxLen}

WithOrigin(req, o) == [req EXCEPT !.headers.origin = o]

CorsRequests ==
  { WithOrigin(Request("10.0.0.1", "GET", "/", NoContent), o) :
      o \in {undefined, <<"a">>, <<"a", "b">>, LocalOrigin3000} }
    \cup { WithOrigin(Request("10.0.0.1", "OPTIONS", "/", NoContent), <<"a">>) }

CorsInit ==
  /\ env \in {[Environment(undefined, undefined, unset)
                 EXCEPT !.ALLOWED_ORIGINS = v] :
                 v \in OriginStrings \cup {undefined}}
  /\ now = 0
  /\ store = << >>
  /\ inflight = EmptyBag
  /\ completed = None
  /\ console = NoLine
  /\ ParseIdle
  /\ ServerIdle
  /\ OtherIdle

CorsNext ==
  \/ \E req \in CorsRequests : Receive(req)
  \/ \E x \in BagToSet(inflight) : RateLimit(x)

SpecCors == CorsInit /\ [][CorsNext]_vars

\* ------------------------------------------------------------------------
\* The application started with ALLOWED_ORIGINS naming '*', alone and next
\* to an origin, and receiving requests of several origins
\* ------------------------------------------------------------------------
Star == <<"*">>

StarValues == { Star, <<"*", ",", "a">>, <<"a">> }

StarRequests ==
  { WithOrigin(Request("10.0.0.1", m, "/", NoContent), o) :
      m \in {"GET", "OPTIONS"},
      o \in {undefined, <<"a">>, <<"b">>, Star} }

StarInit ==
  /\ env \in {[Environment(undefined, undefined, unset)
                 EXCEPT !.ALLOWED_ORIGINS = v] : v \in StarValues}
  /\ now = 0
  /\ store = << >>
  /\ inflight = EmptyBag
  /\ completed = None
  /\ console = NoLine
  /\ ParseIdle
  /\ ServerIdle
  /\ OtherIdle

StarNext ==
  \/ \E req \in StarRequests : Receive(req)
  \/ \E x \in BagToSet(inflight) : RateLimit(x)

SpecStar == StarInit /\ [][StarNext]_vars

\* ------------------------------------------------------------------------
\* The application started with each kind of TRUST_PROXY value and receiving
\* requests with and without a connection address and an X-Forwarded-For
\* header
\* ------------------------------------------------------------------------
TrustProxyValues == {"true", "TRUE", "1", "false", unset}

WithForwardedFor(req, f) == [req EXCEPT !.headers.xForwardedFor = f]

ProxyRequests ==
  { WithForwardedFor(Request(a, "GET", "/", NoContent), f) :
      a \in {"10.0.0.1", ""},
      f \in {<< >>, <<"203.0.113.7">>} }
    \cup { WithForwardedFor(Request("10.0.0.1", "GET", "/", NoContent),
                            <<"198.51.100.9", "203.0.113.7">>) }

ProxyInit ==
  /\ env \in {[Environment(undefined, undefined, unset)
                 EXCEPT !.TRUST_PROXY = t] : t \in TrustProxyValues}
  /\ now = 0
  /\ store = << >>
  /\ inflight = EmptyBag
  /\ completed = None
  /\ console = NoLine
  /\ ParseIdle
  /\ ServerIdle
  /\ OtherIdle

ProxyNext ==
  \/ \E req \in ProxyRequests : Receive(req)
  \/ \E x \in BagToSet(inflight) : RateLimit(x)

SpecProxy == ProxyInit /\ [][ProxyNext]_vars

\* ------------------------------------------------------------------------
\* The application with a low limit and a one-entry whitelist, receiving the
\* requests a client can have turned down: too many, from an origin that is
\* not on the whitelist, with a body over the limit, with a body that does
\* not parse
\* ------------------------------------------------------------------------
RejectRequests ==
  { WithOrigin(Request("10.0.0.1", "GET", "/", NoContent), <<"a">>),
    WithOrigin(Request("10.0.0.1", "GET", "/", NoContent), <<"b">>),
    WithOrigin(Request("10.0.0.2", "POST", "/health", NoContent), <<"b">>),
    Request("10.0.0.2", "POST", "/", Body(JsonType, BodyLimit + 1)),
    Request("10.0.0.2", "POST", "/",
            [type |-> FormType, length |-> 2, wellFormed |-> FALSE]) }

RejectInit ==
  /\ env = [Environment(<<"2">>, <<"2">>, "production")
              EXCEPT !.ALLOWED_ORIGINS = <<"a">>]
  /\ now = 0
  /\ store = << >>
  /\ inflight = EmptyBag
  /\ completed = None
  /\ console = NoLine
  /\ ParseIdle
  /\ ServerIdle
  /\ OtherIdle

RejectNext ==
  \/ \E req \in RejectRequests : Receive(req)
  \/ \E x \in BagToSet(inflight) : RateLimit(x)
  \/ Tick

SpecReject == RejectInit /\ [][RejectNext]_vars

\* ------------------------------------------------------------------------
\* parseIntWithDefault applied to every bounded environment value
\* ------------------------------------------------------------------------
ParseInit ==
  /\ envValue \in Strings \cup {undefined}
  /\ defaultValue \in {DEFAULT_WINDOW_MS, DEFAULT_MAX_REQUESTS}
  /\ parsedResult = NotReturned
  /\ AppIdle
  /\ ServerIdle
  /\ OtherIdle

CallParseIntWithDefault ==
  /\ ~parsedResult.returned
  /\ parsedResult' = [returned |-> TRUE,
                      value |-> parseIntWithDefault(envValue, defaultValue)]
  /\ UNCHANGED <<envValue, defaultValue, appVars, serverVars, otherVars>>

ParseNext == CallParseIntWithDefault

SpecParse == ParseInit /\ [][ParseNext]_vars

\* ------------------------------------------------------------------------
\* The global error handler applied to every bounded error object: some
\* stage has called next(err) and the error travels down the stack
\* ------------------------------------------------------------------------
Absent == "<absent>"

NumberField(f, v) == IF v = 0 THEN << >> ELSE (f :> v)

StringField(f, v) == IF v = Absent THEN << >> ELSE (f :> v)

\* an error object; 0 and Absent leave the property unset
Error(status, statusCode, message, trace) ==
  ("name" :> "Error") @@ NumberField("status", status)
    @@ NumberField("statusCode", statusCode)
    @@ StringField("message", message) @@ StringField("stack", trace)

Errors ==
  { Error(s, c, m, k) : s \in {0, 400, 500, 503}, c \in {0, 413, 500},
                        m \in {Absent, "", "connect ECONNREFUSED db:5432"},
                        k \in {Absent, "Error: connect\n    at db.js:12"} }
    \cup {PayloadTooLarge, ParseFailed}

NodeEnvs == {"production", "development", "test", unset}

ErrorInit ==
  /\ env \in {Environment(undefined, undefined, n) : n \in NodeEnvs}
  /\ now = 0
  /\ store = << >>
  /\ \E req \in Requests, e \in Errors :
       inflight = SetToBag({Raise(NewExchange(appRequest(req, env)), e)})
  /\ completed = None
  /\ console = NoLine
  /\ ParseIdle
  /\ ServerIdle
  /\ OtherIdle

\* the pending error skips every ordinary layer and is answered by the
\* error handler
PropagateError(x) ==
  /\ BagIn(x, inflight)
  /\ x.err # NoError
  /\ Answer(Dispatch(x, 1, env, now))
  /\ inflight' = inflight (-) SetToBag({x})
  /\ UNCHANGED <<env, now, store, parseVars, serverVars, otherVars>>

ErrorNext == \E x \in BagToSet(inflight) : PropagateError(x)

SpecError == ErrorInit /\ [][ErrorNext]_vars

\* ------------------------------------------------------------------------
\* The server process from `node server.js` to its exit
\* ------------------------------------------------------------------------
Scripts == {"server.js", "part_000"}

FileStates == {"ok", "missing", "unreadable", "directory", "empty", "invalid"}

\* the file system: at most one of the two files is not in order
FileSystems ==
  { [key |-> k, cert |-> c] : k \in FileStates, c \in FileStates } \
  { fs \in [key : FileStates, cert : FileStates] :
      fs.key # "ok" /\ fs.cert # "ok" }

HttpsPorts ==
  { undefined, <<"0">>, <<"2", "2", "2">>, <<"a">>, <<"-", "1">>,
    <<"2", "2", "2", "2", "2", "2">> }

ServerEnvironment(h, p) == [ENABLE_HTTPS |-> h, HTTPS_PORT |-> p]

ListenError(code, message) ==
  [syscall |-> "listen", code |-> code, message |-> message]

ListenErrors ==
  { ListenError("EACCES", "Error: listen EACCES: permission denied"),
    ListenError("EADDRINUSE", "Error: listen EADDRINUSE: address already in use"),
    ListenError("EADDRNOTAVAIL", "Error: listen EADDRNOTAVAIL: address not available") }

Signals == {"SIGTERM", "SIGINT"}

\* the state the handlers work on
Machine ==
  [httpServer |-> httpServer, httpsServer |-> httpsServer,
   shutdowns |-> shutdowns, process |-> process, log |-> log]

Becomes(m) ==
  /\ httpServer' = m.httpServer
  /\ httpsServer' = m.httpsServer
  /\ shutdowns' = m.shutdowns
  /\ process' = m.process
  /\ log' = m.log

\* every listen call has succeeded or failed: these events are delivered
\* before the process takes anything from outside
Started ==
  /\ process.state = "running"
  /\ httpServer.state # "starting"
  /\ httpsServer # null => httpsServer.state # "starting"

ServerInit ==
  /\ script \in Scripts
  /\ env \in { ServerEnvironment("true", p) : p \in HttpsPorts }
             \cup { ServerEnvironment(h, undefined) : h \in {"TRUE", unset} }
  /\ files \in IF env.ENABLE_HTTPS = "true" THEN FileSystems
               ELSE { [key |-> "missing", cert |-> "missing"] }
  /\ httpServer = null
  /\ httpsServer = null
  /\ shutdowns = << >>
  /\ process = [state |-> "loading"]
  /\ log = {}
  /\ fault = "none"
  /\ now = 0
  /\ store = << >>
  /\ inflight = EmptyBag
  /\ completed = None
  /\ console = NoLine
  /\ ParseIdle
  /\ OtherIdle

Unchanged == UNCHANGED <<env, now, store, inflight, completed, console,
                         parseVars, script, files, otherVars>>

Unharmed == Unchanged /\ UNCHANGED fault

\* node runs the script to its end
Main ==
  /\ process.state = "loading"
  /\ Becomes(IF script = "server.js" THEN main(Machine, env, files)
             ELSE part000_main(Machine, env, files))
  /\ Unharmed

\* the plain listener is bound and listening
HttpListening ==
  /\ process.state = "running"
  /\ httpServer.state = "starting"
  /\ httpServer' = [httpServer EXCEPT !.state = "listening"]
  /\ UNCHANGED <<httpsServer, shutdowns, process, log>>
  /\ Unharmed

\* the plain listener could not be bound: its 'error' event
HttpError(error) ==
  /\ process.state = "running"
  /\ httpServer.state = "starting"
  /\ LET m == [Machine EXCEPT !.httpServer.state = "failed"]
     IN  Becomes(IF script = "server.js" THEN httpError(m, error)
                 ELSE part000_httpError(m, error))
  /\ Unharmed

\* the TLS listener is bound and listening
HttpsListening ==
  /\ process.state = "running"
  /\ httpsServer # null
  /\ httpsServer.state = "starting"
  /\ httpsServer' = [httpsServer EXCEPT !.state = "listening"]
  /\ UNCHANGED <<httpServer, shutdowns, process, log>>
  /\ Unharmed

\* the TLS listener could not be bound: its 'error' event
HttpsError(error) ==
  /\ process.state = "running"
  /\ httpsServer # null
  /\ httpsServer.state = "starting"
  /\ Becomes(httpsError([Machine EXCEPT !.httpsServer.state = "failed"], error))
  /\ Unharmed

Listener(l) == IF l = "http" THEN httpServer ELSE httpsServer

\* a client connects to a listener that is accepting connections
Connect(l) ==
  /\ Started
  /\ Listener(l) # null
  /\ Listener(l).state = "listening"
  /\ Listener(l).connections < MaxConnections
  /\ IF l = "http"
     THEN httpServer' = [httpServer EXCEPT !.connections = @ + 1]
          /\ UNCHANGED httpsServer
     ELSE httpsServer' = [httpsServer EXCEPT !.connections = @ + 1]
          /\ UNCHANGED httpServer
  /\ UNCHANGED <<shutdowns, process, log>>
  /\ Unharmed

\* a connection ends, its request answered
Disconnect(l) ==
  /\ Started
  /\ Listener(l) # null
  /\ Listener(l).connections > 0
  /\ IF l = "http"
     THEN httpServer' = [httpServer EXCEPT !.connections = @ - 1]
          /\ UNCHANGED httpsServer
     ELSE httpsServer' = [httpsServer EXCEPT !.connections = @ - 1]
          /\ UNCHANGED httpServer
  /\ UNCHANGED <<shutdowns, process, log>>
  /\ Unharmed

\* the 'close' event of a server that was told to close and has no
\* connection left: the callbacks given to close() run
CloseEvent(l) ==
  /\ Started
  /\ Listener(l) # null
  /\ Listener(l).connections = 0
  /\ Listener(l).state \in {"closing", "closed", "failed"}
  /\ Listener(l).onClose # << >>
  /\ LET closed == [Listener(l) EXCEPT
                      !.state = IF @ = "closing" THEN "closed" ELSE @,
                      !.onClose = << >>]
         m == IF l = "http" THEN [Machine EXCEPT !.httpServer = closed]
              ELSE [Machine EXCEPT !.httpsServer = closed]
     IN  Becomes(emitClose(Listener(l).onClose, m, script))
  /\ Unharmed

\* SIGTERM or SIGINT arrives
Signal(signal) ==
  /\ Started
  /\ Len(shutdowns) < MaxSignals
  /\ Becomes(IF script = "server.js" THEN gracefulShutdown(Machine, now)
             ELSE part000_gracefulShutdown(Machine, now))
  /\ Unharmed

\* the timer of the i-th shutdown fires
Timeout(i) ==
  /\ Started
  /\ i \in 1..Len(shutdowns)
  /\ now >= shutdowns[i].deadline
  /\ Becomes(IF script = "server.js" THEN forceExit(Machine)
             ELSE part000_forceExit(Machine))
  /\ Unharmed

\* an exception escapes every handler
UncaughtException ==
  /\ Started
  /\ Becomes(IF script = "server.js"
             THEN uncaughtException(Machine, "Error: boom")
             ELSE part000_uncaughtException(Machine, "Error: boom"))
  /\ fault' = "uncaughtException"
  /\ Unchanged

\* a promise is rejected and nothing handles it
UnhandledRejection ==
  /\ Started
  /\ Becomes(IF script = "server.js"
             THEN unhandledRejection(Machine, "Error: boom")
             ELSE part000_unhandledRejection(Machine, "Error: boom"))
  /\ fault' = "unhandledRejection"
  /\ Unchanged

\* time passes, up to the next timer that comes due and not past it
Advance ==
  /\ Started
  /\ now < MaxClock \/ shutdowns # << >>
  /\ \A i \in 1..Len(shutdowns) : now < shutdowns[i].deadline
  /\ LET times == {now + TimeStep}
                  \cup { shutdowns[i].deadline : i \in 1..Len(shutdowns) }
     IN  now' = CHOOSE t \in times : \A u \in times : t <= u
  /\ UNCHANGED <<env, store, inflight, completed, console, parseVars,
                 serverVars, otherVars>>

ServerNext ==
  \/ Main
  \/ HttpListening
  \/ \E error \in ListenErrors : HttpError(error)
  \/ HttpsListening
  \/ \E error \in ListenErrors : HttpsError(error)
  \/ \E l \in {"http", "https"} : Connect(l)
  \/ \E l \in {"http", "https"} : Disconnect(l)
  \/ \E l \in {"http", "https"} : CloseEvent(l)
  \/ \E signal \in Signals : Signal(signal)
  \/ \E i \in 1..MaxSignals : Timeout(i)
  \/ UncaughtException
  \/ UnhandledRejection
  \/ Advance

SpecServer == ServerInit /\ [][ServerNext]_vars

\* a timer that is due fires, and time passes
SpecServerFair ==
  /\ SpecServer
  /\ WF_vars(\E i \in 1..MaxSignals : Timeout(i))
  /\ WF_vars(Advance)

\* ------------------------------------------------------------------------
\* The settings each script and config/security.js take from PORT,
\* HTTPS_PORT and ALLOWED_ORIGINS, for values that are missing, empty, not
\* numbers, out of range and in order; the TLS listener is enabled and its
\* certificate files are in order
\* ------------------------------------------------------------------------
PortValues ==
  { undefined, << >>, <<"a">>, <<"1", "a">>, <<"-", "1">>,
    <<"2", "2", "2", "2", "2", "2">>, <<"2", "2", "2">> }

OriginValues ==
  { undefined, << >>, <<",">>, <<" ">>, <<"a", ",", "b">> }

Configuration(p, h, o) ==
  [PORT |-> p, HTTPS_PORT |-> h, ENABLE_HTTPS |-> "true",
   ALLOWED_ORIGINS |-> o]

ConfigInit ==
  /\ script \in Scripts
  /\ env \in { Configuration(p, h, o) :
                 p \in PortValues, h \in PortValues, o \in OriginValues }
  /\ files = [key |-> "ok", cert |-> "ok"]
  /\ httpServer = null
  /\ httpsServer = null
  /\ shutdowns = << >>
  /\ process = [state |-> "loading"]
  /\ log = {}
  /\ fault = "none"
  /\ now = 0
  /\ store = << >>
  /\ inflight = EmptyBag
  /\ completed = None
  /\ console = NoLine
  /\ ParseIdle
  /\ OtherIdle

\* node loads the modules: config/security.js reads the whitelist, the
\* script reads the ports and runs to its end
LoadConfiguration ==
  /\ process.state = "loading"
  /\ configured = NotLoaded
  /\ configured' =
       [loaded |-> TRUE,
        PORT |-> IF script = "server.js" THEN PORT(env)
                 ELSE part000_port(env),
        HTTPS_PORT |-> IF script = "server.js" THEN HTTPS_PORT(env)
                       ELSE part000_httpsPort(env),
        ALLOWED_ORIGINS |-> parseAllowedOrigins(env)]
  /\ Becomes(IF script = "server.js" THEN main(Machine, env, files)
             ELSE part000_main(Machine, env, files))
  /\ UNCHANGED <<env, now, store, inflight, completed, console,
                 parseVars, script, files, fault, validation>>

ConfigNext == LoadConfiguration

SpecConfig == ConfigInit /\ [][ConfigNext]_vars

\* ------------------------------------------------------------------------
\* middleware/validation.js (unnamed/part_001): one call of the middleware
\* that validateRequest(validations) returns
\* ------------------------------------------------------------------------
MaxChains == 3

Fields == {"email", "id"}

\* a validation chain on one field of the request; running it against the
\* request in hand either finds the field valid or records one error
ValidationChains == [path : Fields, fails : BOOLEAN]

ValidationError(chain) ==
  [type |-> "field", path |-> chain.path, msg |-> "Invalid value"]

NothingSent == [statusCode |-> 200, body |-> "<none>"]

\* validation.run(req): the chain finishes and leaves its result on the
\* request
run(v, i) ==
  [v EXCEPT !.ran = @ \cup {i},
            !.req = IF v.validations[i].fails
                    THEN Append(@, ValidationError(v.validations[i]))
                    ELSE @]

\* validationResult(req): the errors the chains left on the request
validationResult(v) == v.req

\* a middleware that answers 400 and hands the request on as well
validateRequest_respondsAndNext(v) ==
  LET errors == validationResult(v)
  IN  IF errors # << >>
      THEN [v EXCEPT !.pc = "done",
                     !.res = [statusCode |-> 400,
                              body |-> [status |-> 400,
                                        error |-> "Validation Error",
                                        details |-> errors]],
                     !.sent = @ + 1,
                     !.next = @ + 1]
      ELSE [v EXCEPT !.pc = "done", !.next = @ + 1]

\* the middleware once Promise.all has been fulfilled
validateRequest(v) ==
  LET errors == validationResult(v)
  IN  IF errors # << >>
      THEN [v EXCEPT !.pc = "done",
                     !.res = [statusCode |-> 400,
                              body |-> [status |-> 400,
                                        error |-> "Validation Error",
                                        details |-> errors]],
                     !.sent = @ + 1]
      ELSE [v EXCEPT !.pc = "done", !.next = @ + 1]

ValidateInit ==
  /\ \E n \in 0..MaxChains : \E validations \in [1..n -> ValidationChains] :
       validation = [pc |-> "idle", validations |-> validations, ran |-> {},
                     req |-> << >>, res |-> NothingSent, sent |-> 0,
                     next |-> 0]
  /\ configured = NotLoaded
  /\ AppIdle
  /\ ParseIdle
  /\ ServerIdle

\* Express calls the middleware: every chain is started
CallMiddleware ==
  /\ validation.pc = "idle"
  /\ validation' = [validation EXCEPT !.pc = "running"]
  /\ UNCHANGED <<appVars, parseVars, serverVars, configured>>

\* the chains run concurrently and finish in any order
RunValidation ==
  /\ validation.pc = "running"
  /\ \E i \in DOMAIN validation.validations \ validation.ran :
       validation' = run(validation, i)
  /\ UNCHANGED <<appVars, parseVars, serverVars, configured>>

\* Promise.all is fulfilled when every chain has finished
Settle ==
  /\ validation.pc = "running"
  /\ validation.ran = DOMAIN validation.validations
  /\ validation' = validateRequest(validation)
  /\ UNCHANGED <<appVars, parseVars, serverVars, configured>>

ValidateNext == CallMiddleware \/ RunValidation \/ Settle

SpecValidate == ValidateInit /\ [][ValidateNext]_vars

\* ------------------------------------------------------------------------
\* Properties of parseIntWithDefault
\* ------------------------------------------------------------------------
\* a whole decimal integer literal: optional surrounding white space, an
\* optional sign, one or more digits and nothing else
Unsigned(s) == IF s # <<>> /\ Head(s) \in {"-", "+"} THEN Tail(s) ELSE s

IsIntegerString(s) ==
  LET t == Unsigned(TrimEnd(TrimStart(s)))
  IN  /\ s # undefined
      /\ t # <<>>
      /\ \A i \in 1..Len(t) : t[i] \in Digits

IntegerStringValue(s) ==
  LET t == TrimEnd(TrimStart(s))
  IN  IF Head(t) = "-" THEN 0 - DecimalValue(Unsigned(t))
      ELSE DecimalValue(Unsigned(t))

IsPositiveIntegerString(s) == IsIntegerString(s) /\ IntegerStringValue(s) > 0

\* C5: parseIntWithDefault returns the integer when the value is a positive
\* integer and exactly the default for every missing, empty, non-numeric or
\* non-positive value; no part of an invalid value ends up in the result.
C5_ExactFallback ==
  parsedResult.returned =>
    parsedResult.value =
      IF IsPositiveIntegerString(envValue)
      THEN IntegerStringValue(envValue)
      ELSE defaultValue


\* ------------------------------------------------------------------------
\* Properties of the rate limiter
\* ------------------------------------------------------------------------
Options == rateLimiterOptions(env)

Answered == completed # None

Client(x) == x.req.remoteAddress

\* the count of the client's own record in its open window
OwnCount(a) ==
  IF a \notin DOMAIN store \/ now - store[a].windowStart >= Options.windowMs
  THEN 0 ELSE store[a].count

\* C1: a request is rejected only when the client's own count in its current
\* window has passed max_requests; while the client has issued at most
\* max_requests in the window every one of them is accepted, whatever other
\* clients do.
C1_AcceptedWithinLimit ==
  Answered =>
    /\ completed.rateLimit.used <= Options.limit => completed.status # 429
    /\ completed.status = 429 =>
         /\ Client(completed) \in DOMAIN store
         /\ store[Client(completed)].count > Options.limit
         /\ completed.rateLimit.used = store[Client(completed)].count

\* a client is served at its limit while the other client is over its own
C1_Witness ==
  /\ Answered
  /\ completed.status = 200
  /\ completed.rateLimit.used = Options.limit
  /\ \E b \in Addresses \ {Client(completed)} : OwnCount(b) > Options.limit

C3_ResetAfterWindow ==
  [][ (completed' # None
       /\ Client(completed') \in DOMAIN store
       /\ now - store[Client(completed')].windowStart >= Options.windowMs)
      => /\ completed'.status # 429
         /\ completed'.rateLimit.used = 1
         /\ store'[Client(completed')] = [count |-> 1, windowStart |-> now] ]_vars

\* a client that was rejected before is served again as the first request of
\* a window that started after the configured length had passed
C3_Witness ==
  /\ Answered
  /\ console # NoLine
  /\ console.ip = Client(completed)
  /\ completed.status = 200
  /\ completed.rateLimit.used = 1
  /\ store[Client(completed)].windowStart >= Options.windowMs

\* C4: whatever the interleaving of concurrent requests of one client, each
\* of them raises the client's counter by exactly one and sees its own value,
\* so k requests in one window leave the counter at k and those counted above
\* max_requests are rejected.
C4_NoLostUpdate ==
  [][ \A x \in BagToSet(inflight) :
        (inflight' = inflight (-) SetToBag({x})) =>
          /\ Client(x) \in DOMAIN store'
          /\ store'[Client(x)].count = OwnCount(Client(x)) + 1
          /\ completed'.rateLimit.used = OwnCount(Client(x)) + 1
          /\ OwnCount(Client(x)) + 1 > Options.limit => completed'.status = 429 ]_vars

\* a request is counted second or later while another request of the same
\* client is still waiting in the stack
C4_Witness ==
  /\ Answered
  /\ completed.rateLimit.used >= 2
  /\ \E x \in BagToSet(inflight) : Client(x) = Client(completed)

\* ------------------------------------------------------------------------
\* Properties of the request pipeline
\* ------------------------------------------------------------------------
Middleware == <<"rateLimiter", "helmet", "cors", "json", "urlencoded">>

Handlers == {"getRoot", "getHealth", "notFound", "errorHandler"}

\* the stages ran in the fixed order: a prefix of the middleware, each after
\* all before it, then at most one handler; a route or the not-found handler
\* only after all the middleware, the error handler only for an error
InOrder(x) ==
  LET v == x.visited
      n == Len(v)
  IN  \/ /\ n <= Len(Middleware)
         /\ v = SubSeq(Middleware, 1, n)
      \/ /\ n >= 1
         /\ n - 1 <= Len(Middleware)
         /\ SubSeq(v, 1, n - 1) = SubSeq(Middleware, 1, n - 1)
         /\ v[n] \in Handlers
         /\ v[n] # "errorHandler" => n - 1 = Len(Middleware) /\ x.err = NoError
         /\ v[n] = "errorHandler" => x.err # NoError

\* the stage that answered is the last one that ran
ShortCircuits(x) ==
  /\ x.ended
  /\ x.visited # << >>
  /\ x.status = 429 => x.visited = <<"rateLimiter">>
  /\ (x.status # 429 /\ x.req.method = "OPTIONS") =>
       x.visited = <<"rateLimiter", "helmet", "cors">>
  /\ (x.status # 429 /\ x.req.method # "OPTIONS") =>
       x.visited[Len(x.visited)] \in Handlers

\* C6: every request traverses the stages in the order rate limiter, security
\* headers, CORS, body parsing, routes, not-found handler, error handler; no
\* stage runs before the earlier ones have passed the request on, and a stage
\* that answers short-circuits the later ones.
C6_FixedOrder ==
  /\ \A x \in BagToSet(inflight) : InOrder(x) /\ x.visited # << >>
  /\ Answered => InOrder(completed) /\ ShortCircuits(completed)

\* an error raised by body parsing skipped the routes; a routed request ran
\* through all five middleware stages first
C6_Witness ==
  /\ Answered
  /\ completed.visited = <<"rateLimiter", "helmet", "cors", "json", "errorHandler">>
  /\ completed.status = 413

IsGetRoot(x) == x.req.method = "GET" /\ x.req.originalUrl = "/"

Hello ==
  /\ completed.status = 200
  /\ completed.type = "text/plain"
  /\ completed.body = [text |-> "Hello, World!\n"]

\* C7 as stated: GET / always returns 200, text/plain and "Hello, World!\n",
\* after any sequence of earlier requests.
C7_AlwaysHello ==
  (Answered /\ IsGetRoot(completed)) => Hello

\* C7: GET / returns 200, text/plain and exactly "Hello, World!\n" whenever
\* the rate limiter accepts the request and no body parser rejects its body,
\* after any earlier requests and whatever rate-limit headers are present.
C7_HelloWhenAccepted ==
  (Answered /\ IsGetRoot(completed)
     /\ completed.rateLimit.used <= Options.limit
     /\ completed.err = NoError) => Hello

\* GET / served as a later request of its window, rate-limit headers set
C7_Witness ==
  /\ Answered
  /\ IsGetRoot(completed)
  /\ completed.rateLimit.used >= 2
  /\ "RateLimit" \in completed.headers
  /\ Hello

Unrouted(req) == ~RouteMatches("/", req) /\ ~RouteMatches("/health", req)

NotFoundResponse ==
  /\ completed.status = 404
  /\ completed.type = "application/json"
  /\ DOMAIN completed.body = {"status", "error", "message", "path"}
  /\ completed.body.status = 404
  /\ completed.body.error = "Not Found"
  /\ completed.body.path = completed.req.originalUrl

\* C8 as stated: every request that matches no route, of any method, OPTIONS
\* included, is answered 404 with the JSON body whose path is the request path
\* (requests the rate limiter or a body parser rejected set aside).
C8_UnroutedIs404 ==
  (Answered /\ Unrouted(completed.req)
     /\ completed.rateLimit.used <= Options.limit
     /\ completed.err = NoError) => NotFoundResponse

\* C8: every request that matches no route and is not an OPTIONS request is
\* answered 404 with the JSON body whose path is the original request path,
\* once the rate limiter and the body parsers have accepted it; an OPTIONS
\* request is answered 204 by the CORS stage.
C8_UnroutedNonOptionsIs404 ==
  (Answered /\ Unrouted(completed.req)
     /\ completed.rateLimit.used <= Options.limit
     /\ completed.err = NoError) =>
       IF completed.req.method = "OPTIONS"
       THEN completed.status = 204
            /\ completed.visited[Len(completed.visited)] = "cors"
       ELSE NotFoundResponse

\* a POST of a routed path is not found either
C8_Witness ==
  /\ Answered
  /\ completed.req.method = "POST"
  /\ completed.req.originalUrl = "/"
  /\ NotFoundResponse
  /\ completed.body.path = "/"

\* ------------------------------------------------------------------------
\* Properties of the global error handler
\* ------------------------------------------------------------------------
Declared(e) ==
  IF "status" \in DOMAIN e THEN e.status
  ELSE IF "statusCode" \in DOMAIN e THEN e.statusCode
  ELSE 500

Failed == Answered /\ completed.err # NoError

\* C9: the error handler answers with the error's declared status, 500 when
\* it declares none, and a JSON body whose status equals the response status
\* and whose error is "Internal Server Error" exactly when the status is 500
\* and "Error" otherwise.
C9_ErrorStatus ==
  Failed =>
    /\ completed.status = Declared(completed.err)
    /\ completed.type = "application/json"
    /\ {"status", "error", "message"} \subseteq DOMAIN completed.body
    /\ completed.body.status = completed.status
    /\ completed.body.error =
         IF completed.status = 500 THEN "Internal Server Error" ELSE "Error"

\* an error without a status becomes a 500
C9_Witness ==
  /\ Failed
  /\ DOMAIN completed.err \cap {"status", "statusCode"} = {}
  /\ completed.status = 500
  /\ completed.body.error = "Internal Server Error"

InternalText(e) ==
  {e[f] : f \in DOMAIN e \cap {"message", "stack"}} \ {"", GenericMessage}

\* C10: in production a 500 response carries the generic message and nothing
\* of the error's own text, and a response has a stack field only outside
\* production.
C10_NoLeakInProduction ==
  Failed =>
    /\ (env.NODE_ENV = "production" /\ completed.status = 500) =>
         /\ completed.body.message = GenericMessage
         /\ \A f \in DOMAIN completed.body \ {"status"} :
              completed.body[f] \notin InternalText(completed.err)
    /\ "stack" \in DOMAIN completed.body => env.NODE_ENV # "production"

\* a production 500 for an error that has a message and a stack
C10_Witness ==
  /\ Failed
  /\ env.NODE_ENV = "production"
  /\ completed.status = 500
  /\ TruthyString(completed.err, "message")
  /\ completed.err.message # GenericMessage
  /\ TruthyString(completed.err, "stack")
  /\ DOMAIN completed.body = {"status", "error", "message"}

\* what console.error was given for the error of an exchange
Logged(x) ==
  << IF "message" \in DOMAIN x.err THEN x.err.message ELSE "undefined",
     IF "stack" \in DOMAIN x.err THEN x.err.stack ELSE "undefined" >>

Oversized(req) ==
  req.content.type \in {JsonType, FormType} /\ req.content.length > BodyLimit

Ran(x) == {x.visited[i] : i \in 1..Len(x.visited)}

NeverRouted(x) == Ran(x) \cap {"getRoot", "getHealth", "notFound"} = {}

\* C12 as stated: every request with a JSON or form-encoded body over 10KB
\* is rejected at the body-parsing stage, and no route handler nor the
\* not-found handler runs for it.
C12_RejectedByParser ==
  /\ \A x \in BagToSet(inflight) : Oversized(x.req) => NeverRouted(x)
  /\ (Answered /\ Oversized(completed.req)) =>
       /\ NeverRouted(completed)
       /\ completed.err = PayloadTooLarge
       /\ completed.status = 413

\* C12: no route handler and not the not-found handler ever runs for a
\* request with a JSON or form-encoded body over 10KB, of any method and on
\* any path: the parser of its content type raises 413, which the error
\* handler answers, unless an earlier stage answered first, the rate limiter
\* with 429 or, for an OPTIONS request, the CORS stage with 204, in which
\* case the body is not looked at.
C12_OversizedNeverRouted ==
  /\ \A x \in BagToSet(inflight) : Oversized(x.req) => NeverRouted(x)
  /\ (Answered /\ Oversized(completed.req)) =>
       /\ NeverRouted(completed)
       /\ IF completed.rateLimit.used > Options.limit
          THEN completed.status = 429 /\ completed.err = NoError
          ELSE IF completed.req.method = "OPTIONS"
          THEN completed.status = 204 /\ completed.err = NoError
          ELSE /\ completed.status = 413
               /\ completed.err = PayloadTooLarge
               /\ completed.visited[Len(completed.visited)] = "errorHandler"
               /\ completed.visited[Len(completed.visited) - 1] =
                    IF completed.req.content.type = JsonType
                    THEN "json" ELSE "urlencoded"

\* an oversized form-encoded POST of a routed path is answered 413 after
\* the form parser, the routes skipped
C12_Witness ==
  /\ Answered
  /\ completed.req.method = "POST"
  /\ completed.req.originalUrl = "/health"
  /\ completed.req.content = Body(FormType, BodyLimit + 1)
  /\ completed.status = 413
  /\ completed.visited = <<"rateLimiter", "helmet", "cors", "json",
                           "urlencoded", "errorHandler">>

\* ------------------------------------------------------------------------
\* Properties of the CORS stage
\* ------------------------------------------------------------------------
\* the trimmed, non-empty entries of a comma-separated list: every maximal
\* stretch without a comma, trimmed, unless nothing is left of it
Entries(s) ==
  { trim(SubSeq(s, i, j)) :
      <<i, j>> \in { p \in (1..(Len(s) + 1)) \X (0..Len(s)) :
                      /\ p[1] <= p[2] + 1
                      /\ p[1] = 1 \/ s[p[1] - 1] = ","
                      /\ p[2] = Len(s) \/ s[p[2] + 1] = ","
                      /\ \A k \in p[1]..p[2] : s[k] # "," } } \ { << >> }

LocalDefaults == {LocalOrigin3000, LocalOrigin8080}

Exchanges ==
  BagToSet(inflight) \cup (IF Answered THEN {completed} ELSE {})

Forwarded(req) == req.headers.xForwardedFor[Len(req.headers.xForwardedFor)]

ClientKey(req) ==
  IF env.TRUST_PROXY = "true" /\ req.headers.xForwardedFor # << >>
  THEN Forwarded(req)
  ELSE IF req.remoteAddress # "" THEN req.remoteAddress
  ELSE "unknown"

CountOf(st, key) == IF key \in DOMAIN st THEN st[key].count ELSE 0

\* C20: a request is counted against the record of the forwarded address
\* only when TRUST_PROXY is exactly 'true' and the request has the header,
\* otherwise against that of its connection address, and against 'unknown'
\* when it has neither; so with proxy trust disabled requests of one
\* connection address are counted in one record whatever their headers.
C20_KeyOfRequest ==
  [][ \A x \in BagToSet(inflight) :
        (inflight' = inflight (-) SetToBag({x})) =>
          /\ CountOf(store', ClientKey(x.req)) =
               CountOf(store, ClientKey(x.req)) + 1
          /\ completed'.rateLimit.used = CountOf(store', ClientKey(x.req))
          /\ \A k \in DOMAIN store' \ {ClientKey(x.req)} :
               k \in DOMAIN store /\ store'[k] = store[k]
          /\ env.TRUST_PROXY # "true" =>
               DOMAIN store' \subseteq {"10.0.0.1", "unknown"} ]_vars

\* with TRUST_PROXY=TRUE, which is not 'true', a request with a forwarded
\* address is counted second in the record of its connection address, the
\* only record there is
C20_Witness ==
  /\ Answered
  /\ env.TRUST_PROXY = "TRUE"
  /\ completed.req.remoteAddress = "10.0.0.1"
  /\ completed.req.headers.xForwardedFor = <<"203.0.113.7">>
  /\ completed.rateLimit.used = 2
  /\ DOMAIN store = {"10.0.0.1"}
  /\ store["10.0.0.1"].count = 2

\* ------------------------------------------------------------------------
\* Properties of the server process
\* ------------------------------------------------------------------------
Exited == process.state = "exited"

Signalled == shutdowns # << >>

\* a listener that has reported closed, or never came to listen, and has no
\* connection
Closed(server) ==
  server.state \in {"closed", "failed"} /\ server.connections = 0

AllClosed ==
  /\ httpServer # null /\ httpServer.state = "closed"
  /\ httpServer.connections = 0
  /\ httpsServer # null => Closed(httpsServer)

\* C14: the process exits with code 0 only after a termination signal and
\* only once every active listener, the plain one and the TLS one when it was
\* started, has reported closed, all their connections ended; it never exits
\* with code 0 while a listener is still open.
C14_ExitZeroAfterAllClosed ==
  (Exited /\ process.exitCode = 0) => (Signalled /\ AllClosed)

\* both listeners served a shutdown to its end: the TLS listener has reported
\* closed after the plain one had
C14_Witness ==
  /\ Exited
  /\ process.exitCode = 0
  /\ httpsServer # null
  /\ httpsServer.state = "closed"
  /\ httpServer.state = "closed"
  /\ now > 0

\* the timer of the first signal
Deadline == shutdowns[1].deadline

C16_AllStopAccepting ==
  (Signalled /\ ~Exited) =>
    /\ httpServer.state # "listening"
    /\ httpsServer # null => httpsServer.state # "listening"

FileProblems == {"missing", "unreadable", "empty"}

\* the port createSecureServer is called with is not a number in 0..65535
InvalidHttpsPort ==
  LET portNumber == parseIntOf(IF script = "server.js" THEN HTTPS_PORT(env)
                               ELSE part000_httpsPort(env))
  IN  portNumber.isNaN \/ portNumber.value \notin 0..65535

TlsStartFails ==
  /\ env.ENABLE_HTTPS = "true"
  /\ \/ files.key \in FileProblems
     \/ files.cert \in FileProblems
     \/ InvalidHttpsPort

FailureLogged ==
  \E line \in log :
    line[1] \in {"Failed to start HTTPS server:",
                 "Warning: Failed to start HTTPS server:"}

\* C17: when ENABLE_HTTPS is 'true' and the TLS listener fails to start, for
\* a key or certificate file that is missing, unreadable or empty or for an
\* invalid HTTPS port, the failure is logged, the script runs on without
\* exiting, httpsServer stays null and the plain listener is started and
\* accepts connections until a shutdown begins.
C17_TlsFailureNotFatal ==
  (TlsStartFails /\ process.state # "loading") =>
    /\ httpsServer = null
    /\ FailureLogged
    /\ httpServer # null
    /\ Exited => httpServer.state # "starting"
    /\ (Started /\ ~Signalled) => httpServer.state = "listening"

\* the certificate file is empty and the plain listener serves a connection
C17_Witness ==
  /\ env.ENABLE_HTTPS = "true"
  /\ files.cert = "empty"
  /\ process.state = "running"
  /\ httpsServer = null
  /\ <<"Failed to start HTTPS server:", "SSL certificate file is empty">> \in log
  /\ httpServer.state = "listening"
  /\ httpServer.connections = 1

\* the sentences the 'error' handlers of the plain listener have for a
\* failed listen call
Explanations ==
  { <<"Port ${PORT} requires elevated privileges">>,
    <<"Port ${PORT} is already in use">>,
    <<"Port ${PORT} is not available">>,
    <<"${bind} requires elevated privileges">>,
    <<"${bind} is already in use">>,
    <<"${bind} is not available">> }

Faults == {"uncaughtException", "unhandledRejection"}

TlsErrorLogged ==
  \E line \in log :
    line[1] \in {"HTTPS Server Error: Port ${portNumber} is already in use",
                 "HTTPS Server Error: Permission denied for port ${portNumber}.",
                 "HTTPS Server Error:"}

\* C18: every failure to bind the plain listener, for an address in use, a
\* lack of permission or an address that is not available, is explained by
\* the handler and ends the process with code 1; a failure to bind the TLS
\* listener is logged and does not end the process.
C18_BindErrorsExplained ==
  /\ (httpServer # null /\ httpServer.state = "failed") =>
       /\ Exited
       /\ process.exitCode = 1
       /\ log \cap Explanations # {}
  /\ (httpsServer # null /\ httpsServer.state = "failed") =>
       /\ TlsErrorLogged
       /\ Exited => (Signalled \/ fault \in Faults
                     \/ httpServer.state = "failed")

FaultLogged ==
  \/ <<"Uncaught Exception:", "Error: boom">> \in log
  \/ <<"Reason:", "Error: boom">> \in log
  \/ <<"Error: boom">> \in log

\* C19: the process exits with code 0 only when a graceful shutdown has
\* completed, and with code 1 when the plain listener could not be bound,
\* when the shutdown timer fired, and on an uncaught exception or unhandled
\* rejection, which is logged and always ends the process.
C19_ExitCodes ==
  /\ Exited =>
       /\ process.exitCode \in {0, 1}
       /\ process.exitCode = 0 <=>
            /\ Signalled /\ AllClosed
            /\ fault = "none"
            /\ process.by # "SHUTDOWN_TIMEOUT"
  /\ (httpServer # null /\ httpServer.state = "failed") =>
       (Exited /\ process.exitCode = 1)
  /\ fault \in Faults =>
       (Exited /\ process.exitCode = 1 /\ process.by = fault /\ FaultLogged)

\* a promise rejected during a shutdown ends the process with code 1
C19_Witness ==
  /\ script = "server.js"
  /\ Signalled
  /\ fault = "unhandledRejection"
  /\ Exited
  /\ process.exitCode = 1
  /\ <<"Unhandled Promise Rejection at:">> \in log


\* ------------------------------------------------------------------------
\* Properties of client-triggered rejections
\* ------------------------------------------------------------------------
OverLimit(x) == x.rateLimit.used > Options.limit

\* the request names an origin that is not on the whitelist
OriginNotWhitelisted(req) ==
  /\ req.headers.origin # undefined
  /\ ~isOriginAllowed(req.headers.origin, corsOptions(env).origin)

\* C21: a request that exceeds the rate limit, names an origin that is not
\* on the whitelist or carries a body over the limit is answered with a 4xx
\* JSON response, and the process is not terminated by it.
C21_RejectionsAre4xxJson ==
  /\ process.state # "exited"
  /\ (Answered /\ \/ OverLimit(completed)
                  \/ OriginNotWhitelisted(completed.req)
                  \/ Oversized(completed.req)) =>
       /\ completed.status \in 400..499
       /\ completed.type = "application/json"

\* ------------------------------------------------------------------------
\* Properties of the configuration outside the rate limiter
\* ------------------------------------------------------------------------
\* a port value that is missing, empty, not a number or not in 0..65535
InvalidPort(s) ==
  \/ ~IsIntegerString(s)
  \/ IntegerStringValue(s) \notin 0..65535

\* an origin list that is missing or has no non-empty entry
NoOrigin(s) == s = undefined \/ Entries(s) = {}

IsNumber(v, n) == v.type = "number" /\ v.value = n

\* C22: a missing or invalid value of PORT, HTTPS_PORT or ALLOWED_ORIGINS is
\* resolved to the documented default, 3000, 443 and the two localhost
\* origins, and no error is reported for it.
C22_InvalidResolvedToDefault ==
  configured.loaded =>
    /\ InvalidPort(env.PORT) => IsNumber(configured.PORT, 3000)
    /\ InvalidPort(env.HTTPS_PORT) =>
         /\ IsNumber(configured.HTTPS_PORT, DEFAULT_HTTPS_PORT)
         /\ ~FailureLogged
         /\ httpsServer # null
    /\ NoOrigin(env.ALLOWED_ORIGINS) =>
         configured.ALLOWED_ORIGINS = << LocalOrigin3000, LocalOrigin8080 >>

\* ------------------------------------------------------------------------
\* Properties of the two standing policies
\* ------------------------------------------------------------------------
\* what a variable configures: its value when that is a positive integer,
\* the default otherwise
Overridable(value, default) ==
  IF IsPositiveIntegerString(value) THEN IntegerStringValue(value)
  ELSE default

C25_StarAllowsAll ==
  \A x \in Exchanges :
    ( /\ env.ALLOWED_ORIGINS = Star
      /\ x.req.headers.origin # undefined
      /\ "cors" \in Ran(x) ) => x.allowOrigin # undefined

\* ------------------------------------------------------------------------
\* Properties of a request the rate limiter rejects
\* ------------------------------------------------------------------------
\* C26: for a request the rate limiter rejects no later stage runs: no
\* security header is set, the CORS and body-parsing stages, the routes, the
\* not-found handler and the error handler are not entered, and the 429
\* response of the rate limiter is the response the client gets.
C26_RejectedStopsAtLimiter ==
  (Answered /\ OverLimit(completed)) =>
    /\ completed.visited = <<"rateLimiter">>
    /\ completed.status = 429
    /\ completed.type = "application/json"
    /\ completed.body = rateLimiterMessage
    /\ completed.headers \cap helmetConfig = {}
    /\ completed.allowOrigin = undefined
    /\ completed.err = NoError
    /\ completed.errored = << >>

\* a request with a body over the limit is rejected, its body never read
C26_Witness ==
  /\ Answered
  /\ OverLimit(completed)
  /\ Oversized(completed.req)
  /\ completed.status = 429
  /\ completed.visited = <<"rateLimiter">>

\* ------------------------------------------------------------------------
\* Properties of per-client isolation
\* ------------------------------------------------------------------------
\* the exchanges the step from this state to the next takes from the stack
Counted == { x \in BagToSet(inflight) : inflight' = inflight (-) SetToBag({x}) }

\* C27: a request of one client leaves the record of every other client as
\* it was, count and window start: a record changes or appears only in a
\* step that counts a request of its own client, so a client is rejected
\* only on its own count, whatever the traffic of the others.
C27_PerClientIsolation ==
  [][ /\ \A k \in DOMAIN store :
           /\ k \in DOMAIN store'
           /\ store'[k] # store[k] => \E x \in Counted : Client(x) = k
      /\ \A k \in DOMAIN store' \ DOMAIN store :
           \E x \in Counted : Client(x) = k
      /\ \A x \in Counted :
           completed'.status = 429 =>
             /\ store'[Client(x)].count > Options.limit
             /\ store'[Client(x)].count = OwnCount(Client(x)) + 1 ]_vars

\* a request of the second client is accepted as its first while the first
\* client is over the limit
C27_Witness ==
  /\ Answered
  /\ Client(completed) = "10.0.0.2"
  /\ completed.status = 200
  /\ completed.rateLimit.used = 1
  /\ "10.0.0.1" \in DOMAIN store
  /\ OwnCount("10.0.0.1") > Options.limit

\* ------------------------------------------------------------------------
\* Properties of answering
\* ------------------------------------------------------------------------
\* the stages that sent a response for the exchange: the rate limiter when
\* it rejected, the CORS stage for a preflight, and every handler that ran
Responders(x) ==
  { i \in 1..Len(x.visited) :
      \/ x.visited[i] = "rateLimiter" /\ OverLimit(x)
      \/ x.visited[i] = "cors" /\ x.req.method = "OPTIONS"
      \/ x.visited[i] \in Handlers }

\* C28: every request that enters the stack is answered exactly once, by
\* one stage, the last that ran for it: the rate limiter with 429, the CORS
\* stage for a preflight, a route, the not-found handler or the error
\* handler.  Until then it waits, unanswered, at the rate limiter, and the
\* step that takes it from there answers it.
C28_ExactlyOneResponse ==
  /\ [](\A x \in BagToSet(inflight) :
          ~x.ended /\ x.status = 0 /\ Responders(x) = {})
  /\ [](Answered =>
          /\ completed.ended
          /\ completed.status # 0
          /\ Responders(completed) = {Len(completed.visited)})
  /\ [][ /\ \A x \in Counted : completed' # None /\ completed'.req = x.req
         /\ BagCardinality(inflight') >= BagCardinality(inflight) - 1
         /\ BagCardinality(inflight') < BagCardinality(inflight) =>
              Counted # {} ]_vars

\* a preflight is answered by the CORS stage, and by nothing after it
C28_Witness ==
  /\ Answered
  /\ completed.req.method = "OPTIONS"
  /\ completed.status = 204
  /\ completed.visited = <<"rateLimiter", "helmet", "cors">>
  /\ Responders(completed) = {3}

\* ------------------------------------------------------------------------
\* Properties of a shutdown that is asked for again, or with a TLS listener
\* that never bound
\* ------------------------------------------------------------------------
TlsNeverBound == httpsServer # null /\ httpsServer.state = "failed"

Repeated == Len(shutdowns) >= 2

\* C29: when a second termination signal arrives during a shutdown, or the
\* TLS listener was created but never bound, the process still exits, and
\* once: with code 0 only when the plain listener has closed and the TLS
\* listener, if there is one, has closed or never bound, no connection left;
\* otherwise with code 1 and not later than the timer of the first signal.
C29_RepeatedShutdown ==
  /\ [][Exited => process' = process]_vars
  /\ []((Signalled /\ (Repeated \/ TlsNeverBound)) =>
          /\ now <= Deadline
          /\ \A i \in 1..Len(shutdowns) : Deadline <= shutdowns[i].deadline
          /\ Exited => process.exitCode \in {0, 1}
          /\ (Exited /\ process.exitCode = 0) =>
               /\ httpServer.state = "closed"
               /\ httpServer.connections = 0
               /\ httpsServer # null =>
                    /\ httpsServer.state \in {"closed", "failed"}
                    /\ httpsServer.connections = 0
          /\ (Exited /\ process.by = "SHUTDOWN_TIMEOUT") =>
               process.exitCode = 1 /\ now = Deadline)
  /\ ((Signalled /\ (Repeated \/ TlsNeverBound)) ~> Exited)

\* after two signals, the second later than the first, the process has
\* exited with code 0 although its TLS listener never bound
C29_Witness ==
  /\ script = "server.js"
  /\ Repeated
  /\ shutdowns[2].deadline > Deadline
  /\ TlsNeverBound
  /\ Exited
  /\ process.exitCode = 0
  /\ httpServer.state = "closed"

\* the chains of the call in hand that found their field invalid
FailedChains ==
  {i \in DOMAIN validation.validations : validation.validations[i].fails}

\* C30: the middleware made by validateRequest lets every chain finish and
\* then does exactly one thing: when a chain failed it answers 400 with the
\* body {status: 400, error: 'Validation Error', details} and does not call
\* next(); when none failed it calls next() once and sends nothing. Before
\* that it has done neither.
C30_ValidateRequestOneOutcome ==
  /\ validation.pc # "done" => (validation.sent = 0 /\ validation.next = 0)
  /\ validation.pc = "done" =>
       /\ validation.ran = DOMAIN validation.validations
       /\ validation.sent + validation.next = 1
       /\ FailedChains # {} =>
            /\ validation.sent = 1
            /\ validation.res.statusCode = 400
            /\ validation.res.body.status = 400
            /\ validation.res.body.error = "Validation Error"
            /\ Len(validation.res.body.details) = Cardinality(FailedChains)
            /\ \A i \in FailedChains :
                 \E k \in DOMAIN validation.res.body.details :
                   validation.res.body.details[k] =
                     ValidationError(validation.validations[i])
       /\ FailedChains = {} =>
            /\ validation.next = 1
            /\ validation.res = NothingSent

C30_Witness ==
  /\ validation.pc = "done"
  /\ Cardinality(FailedChains) = 1
  /\ Len(validation.validations) = MaxChains
  /\ validation.res.statusCode = 400
  /\ validation.next = 0
====
